---- MODULE Spec2Model ----
(***************************************************************************)
(* Employee Directory (src/src/comp.jsx): the App component's state, the   *)
(* single dataset fetch issued by the mount effect, the input handlers,   *)
(* and the derived values cities / filtered / totalPages / paginated.     *)
(*                                                                         *)
(* JavaScript strings are sequences of UTF-16 code units; the JavaScript  *)
(* value undefined is the one-element sequence Undefined, which is no     *)
(* string.                                                                 *)
(***************************************************************************)
EXTENDS Integers, Sequences, FiniteSets, TLC

VARIABLES users, query, cityFilter, sortBy, page, loading, error, pc, fetches

vars == <<users, query, cityFilter, sortBy, page, loading, error, pc, fetches>>

\* ------------------------------------------------------------------ bounds
MaxBase == 3   \* longest record pattern a dataset is built from
MaxRep  == 3   \* how many times the pattern is repeated in the dataset

\* ------------------------------------------------------- program constants
PAGE_SIZE == 4

Undefined == <<-1>>
Null      == "null"
ErrorMessage == "Failed to fetch users. Please try again."
All       == <<65, 108, 108>>              \* "All"
NoQuery   == <<>>                          \* ""

\* ------------------------------------------------------------ JS built-ins
MathMax(a, b) == IF a >= b THEN a ELSE b
MathMin(a, b) == IF a <= b THEN a ELSE b

\* Math.ceil(n / d) for n >= 0, d > 0
MathCeilDiv(n, d) == IF n % d = 0 THEN n \div d ELSE (n \div d) + 1

SetMin(S) == CHOOSE x \in S : \A y \in S : x <= y

\* String.prototype.toLowerCase on the letters A-Z
LowerUnit(c) == IF c \in 65..90 THEN c + 32 ELSE c
toLowerCase(s) == [i \in 1..Len(s) |-> LowerUnit(s[i])]

\* String.prototype.includes
includes(hay, needle) ==
    \E i \in 0..(Len(hay) - Len(needle)) : SubSeq(hay, i + 1, i + Len(needle)) = needle

\* comparison of two strings by UTF-16 code units: -1, 0 or 1
CodeUnitCompare(a, b) ==
    LET m == MathMin(Len(a), Len(b))
        D == {i \in 1..m : a[i] # b[i]}
    IN  IF D = {}
        THEN IF Len(a) < Len(b) THEN -1 ELSE IF Len(a) > Len(b) THEN 1 ELSE 0
        ELSE IF a[SetMin(D)] < b[SetMin(D)] THEN -1 ELSE 1

\* String.prototype.localeCompare on letters: the letters decide first,
\* and between strings that differ only in case the lower case one is first
localeCompare(a, b) ==
    LET p == CodeUnitCompare(toLowerCase(a), toLowerCase(b))
        D == {i \in 1..Len(a) : a[i] # b[i]}
    IN  IF p # 0 THEN p
        ELSE IF D = {} THEN 0
        ELSE IF a[SetMin(D)] > b[SetMin(D)] THEN -1 ELSE 1

\* x || ""
OrEmpty(x) == IF x = Undefined \/ x = <<>> THEN <<>> ELSE x

\* the comparison Array.prototype.sort() makes without a comparator:
\* undefined goes last, strings are ordered by code units
DefaultCompare(a, b) ==
    IF a = Undefined /\ b = Undefined THEN 0
    ELSE IF a = Undefined THEN 1
    ELSE IF b = Undefined THEN -1
    ELSE CodeUnitCompare(a, b)

\* Array.prototype.slice(start, end), zero-based, negative indices from the end
ArraySlice(list, start, end) ==
    LET n  == Len(list)
        s  == IF start < 0 THEN MathMax(n + start, 0) ELSE MathMin(start, n)
        e  == IF end < 0 THEN MathMax(n + end, 0) ELSE MathMin(end, n)
    IN  SubSeq(list, s + 1, e)

\* new Set(list), then Array.from: first occurrences in order
RECURSIVE SetOf(_)
SetOf(list) ==
    IF list = <<>> THEN <<>>
    ELSE LET init == SetOf(SubSeq(list, 1, Len(list) - 1))
             x    == list[Len(list)]
         IN  IF \E i \in 1..Len(init) : init[i] = x THEN init ELSE Append(init, x)

\* one step of a stable sort: x goes in front of the first element that
\* the comparison puts after it (later: the positions of such elements)
InsertSorted(sorted, x, later) ==
    LET k == IF later = {} THEN Len(sorted) + 1 ELSE SetMin(later)
    IN  SubSeq(sorted, 1, k - 1) \o <<x>> \o SubSeq(sorted, k, Len(sorted))

\* Array.prototype.sort() without a comparator
RECURSIVE SortDefault(_)
SortDefault(list) ==
    IF list = <<>> THEN <<>>
    ELSE LET init == SortDefault(SubSeq(list, 1, Len(list) - 1))
             x    == list[Len(list)]
         IN  InsertSorted(init, x, {i \in 1..Len(init) : DefaultCompare(init[i], x) > 0})

\* ------------------------------------------------------------ the datasets
\* A record carries the fields the component reads: id, name, username,
\* email, company (company?.name) and city (address?.city).
Pool ==
    { [name |-> <<65, 98>>, username |-> <<120>>, email |-> <<121>>,
       company |-> <<67>>, city |-> <<75>>],                \* "Ab" x y "C"  "K"
      [name |-> <<97, 98>>, username |-> <<120>>, email |-> <<121>>,
       company |-> Undefined, city |-> <<107>>],            \* "ab" x y  -   "k"
      [name |-> <<67>>, username |-> <<120>>, email |-> <<121>>,
       company |-> <<97>>, city |-> Undefined],             \* "C"  x y "a"   -
      [name |-> <<97>>, username |-> <<66>>, email |-> <<121>>,
       company |-> <<99>>, city |-> <<75>>],                \* "a"  B y "c"  "K"
      [name |-> <<99>>, username |-> <<120>>, email |-> <<121>>,
       company |-> <<67>>, city |-> <<75>>] }               \* "c"  x y "C"  "K"

Bases == UNION {[1..n -> Pool] : n \in 0..MaxBase}

Repeat(base, r) == [i \in 1..(Len(base) * r) |-> base[((i - 1) % Len(base)) + 1]]

WithIds(list) ==
    [i \in 1..Len(list) |->
        [id |-> i, name |-> list[i].name, username |-> list[i].username,
         email |-> list[i].email, company |-> list[i].company, city |-> list[i].city]]

Datasets == {WithIds(Repeat(b, r)) : b \in Bases, r \in 1..MaxRep}

\* what the user can type into the search box: "", "a", "AB", "z"
Queries == {NoQuery, <<97>>, <<65, 66>>, <<122>>}

SortKeys == {"name", "company"}

\* ------------------------------------------------------- derived values
citiesOf(us) ==
    <<All>> \o SortDefault(SetOf([i \in 1..Len(us) |-> us[i].city]))

cities == citiesOf(users)

\* the value of the <option> rendered for c: an option without a value
\* attribute has its (empty) text as value
OptionValue(c) == IF c = Undefined THEN <<>> ELSE c

matchesQuery(u, q) ==
    includes(toLowerCase(u.name \o u.username \o u.email \o OrEmpty(u.company)),
             toLowerCase(q))

\* a comparison that ignores case
matchesCityAnyCase(u, c) == toLowerCase(u.city) = toLowerCase(c)

matchesCity(u, c) == u.city = c

sortCompare(a, b, key) ==
    IF key = "name" THEN localeCompare(a.name, b.name)
    ELSE IF key = "company" THEN localeCompare(OrEmpty(a.company), OrEmpty(b.company))
    ELSE 0

\* list.sort(comparator): stable
RECURSIVE SortBy(_, _)
SortBy(list, key) ==
    IF list = <<>> THEN <<>>
    ELSE LET init == SortBy(SubSeq(list, 1, Len(list) - 1), key)
             x    == list[Len(list)]
         IN  InsertSorted(init, x, {i \in 1..Len(init) : sortCompare(init[i], x, key) > 0})

filteredOf(us, q, c, key) ==
    LET byQuery(u) == matchesQuery(u, q)
        byCity(u)  == matchesCity(u, c)
        l1 == IF q # <<>> THEN SelectSeq(us, byQuery) ELSE us
        l2 == IF c # All THEN SelectSeq(l1, byCity) ELSE l1
    IN  SortBy(l2, key)

filtered == filteredOf(users, query, cityFilter, sortBy)

totalPagesOf(list) == MathCeilDiv(Len(list), PAGE_SIZE)

totalPages == totalPagesOf(filtered)

\* a slice that takes the page number as zero-based
paginatedOfZeroBased(list, p) == ArraySlice(list, p * PAGE_SIZE, (p + 1) * PAGE_SIZE)

paginatedOf(list, p) == ArraySlice(list, (p - 1) * PAGE_SIZE, p * PAGE_SIZE)

paginated == paginatedOf(filtered, page)

\* ------------------------------------------------------------ the component
Init ==
    /\ users = <<>>
    /\ query = NoQuery
    /\ cityFilter = All
    /\ sortBy = "name"
    /\ page = 1
    /\ loading = TRUE
    /\ error = Null
    /\ pc = "init"
    /\ fetches = 0

\* the mount effect calls fetchUsers, which issues the request and suspends
fetchUsers ==
    /\ pc = "init"
    /\ pc' = "fetching"
    /\ fetches' = fetches + 1
    /\ UNCHANGED <<users, query, cityFilter, sortBy, page, loading, error>>

\* a catch without the finally
OnFetchErrorNoFinally ==
    /\ error' = ErrorMessage
    /\ pc' = "done"
    /\ UNCHANGED <<users, query, cityFilter, sortBy, page, loading, fetches>>

\* a catch that calls fetchUsers again
OnFetchErrorRetries ==
    /\ pc' = "fetching"
    /\ fetches' = fetches + 1
    /\ UNCHANGED <<users, query, cityFilter, sortBy, page, loading, error>>

\* catch and finally
OnFetchError ==
    /\ error' = ErrorMessage
    /\ loading' = FALSE
    /\ pc' = "done"
    /\ UNCHANGED <<users, query, cityFilter, sortBy, page, fetches>>

\* setUsers(data) and finally
OnFetchSuccess(data) ==
    /\ users' = data
    /\ loading' = FALSE
    /\ pc' = "done"
    /\ UNCHANGED <<query, cityFilter, sortBy, page, error, fetches>>

\* await fetch(...) rejects: network failure
FetchRejected ==
    /\ pc = "fetching"
    /\ OnFetchError

\* await fetch(...) resolves with a response whose ok is false
FetchNotOk ==
    /\ pc = "fetching"
    /\ OnFetchError

\* await fetch(...) resolves with an ok response; response.json() suspends
FetchOk ==
    /\ pc = "fetching"
    /\ pc' = "parsing"
    /\ UNCHANGED <<users, query, cityFilter, sortBy, page, loading, error, fetches>>

\* await response.json() rejects: the payload is malformed
JsonRejected ==
    /\ pc = "parsing"
    /\ OnFetchError

\* await response.json() resolves with the record list
JsonResolved ==
    /\ pc = "parsing"
    /\ \E data \in Datasets : OnFetchSuccess(data)

handleQueryChange(value) ==
    /\ query' = value
    /\ page' = 1
    /\ UNCHANGED <<users, cityFilter, sortBy, loading, error, pc, fetches>>

handleCityChange(value) ==
    /\ cityFilter' = value
    /\ page' = 1
    /\ UNCHANGED <<users, query, sortBy, loading, error, pc, fetches>>

\* a sort handler that resets the page as the other two handlers do
handleSortChangeResetsPage(value) ==
    /\ sortBy' = value
    /\ page' = 1
    /\ UNCHANGED <<users, query, cityFilter, loading, error, pc, fetches>>

handleSortChange(value) ==
    /\ sortBy' = value
    /\ UNCHANGED <<users, query, cityFilter, page, loading, error, pc, fetches>>

\* a footer rendered unconditionally
footerShownAlways == TRUE

\* the pagination footer is rendered
footerShown == ~loading /\ error = Null

PreviousPage ==
    /\ footerShown
    /\ ~(page = 1)
    /\ page' = MathMax(page - 1, 1)
    /\ UNCHANGED <<users, query, cityFilter, sortBy, loading, error, pc, fetches>>

NextPage ==
    /\ footerShown
    /\ ~(page = totalPages)
    /\ page' = MathMin(page + 1, totalPages)
    /\ UNCHANGED <<users, query, cityFilter, sortBy, loading, error, pc, fetches>>

\* a Retry button that calls fetchUsers again in place
RetryInPlace ==
    /\ error # Null
    /\ error' = Null
    /\ loading' = TRUE
    /\ pc' = "fetching"
    /\ UNCHANGED <<users, query, cityFilter, sortBy, page, fetches>>

\* the Retry button: window.location.reload() loads the page anew
Retry ==
    /\ error # Null
    /\ users' = <<>>
    /\ query' = NoQuery
    /\ cityFilter' = All
    /\ sortBy' = "name"
    /\ page' = 1
    /\ loading' = TRUE
    /\ error' = Null
    /\ pc' = "init"
    /\ fetches' = 0

Next ==
    \/ fetchUsers
    \/ FetchRejected
    \/ FetchNotOk
    \/ FetchOk
    \/ JsonRejected
    \/ JsonResolved
    \/ \E value \in Queries : handleQueryChange(value)
    \/ \E i \in 1..Len(cities) : handleCityChange(OptionValue(cities[i]))
    \/ \E value \in SortKeys : handleSortChange(value)
    \/ PreviousPage
    \/ NextPage
    \/ Retry

Spec == Init /\ [][Next]_vars

\* ------------------------------------------------------------------ views
View ==
    IF pc = "init" THEN "Initializing"
    ELSE IF loading THEN "Loading"
    ELSE IF error # Null THEN "Failed"
    ELSE "Ready"

Range(list) == {list[i] : i \in 1..Len(list)}

\* the visible rows of pages 1..n, one after the other
RECURSIVE PagesUpTo(_, _)
PagesUpTo(list, n) ==
    IF n <= 0 THEN <<>> ELSE PagesUpTo(list, n - 1) \o paginatedOf(list, n)

\* n clamped into [1, totalPages]
ClampPage(n) == MathMax(1, MathMin(n, totalPages))

\* ------------------------------------------------------------------ claims

\* C1: once the fetch has succeeded the page number is at least 1, and at
\* most totalPages whenever totalPages >= 1.
C1_PageInRange ==
    (pc = "done" /\ error = Null) =>
        /\ page >= 1
        /\ (totalPages >= 1 => page <= totalPages)

\* C2: a Previous or Next click sets the page to the requested page clamped
\* into [1, totalPages], and changes nothing when totalPages is 0.
C2_PageChangeClamps ==
    [][ /\ (NextPage /\ totalPages >= 1 => page' = ClampPage(page + 1))
        /\ (PreviousPage /\ totalPages >= 1 => page' = ClampPage(page - 1))
        /\ ((NextPage \/ PreviousPage) /\ totalPages = 0 => page' = page /\ page' >= 1)
      ]_vars

\* C3: a step that changes the query or the category leaves the page at 1;
\* a step that changes only the sort key (no reload) leaves the page, the
\* query and the category as they were.
C3_ResetOnFilterNotOnSort ==
    [][ /\ (query' # query => page' = 1)
        /\ (cityFilter' # cityFilter => page' = 1)
        /\ (sortBy' # sortBy /\ error' = error =>
                page' = page /\ query' = query /\ cityFilter' = cityFilter)
      ]_vars

C3_Witness ==
    sortBy = "company" /\ page = 2 /\ query # NoQuery /\ cityFilter # All

\* C4: a failed fetch (network failure, non-success status, malformed
\* payload) ends with the error message, loading false, the dataset empty
\* and the category options <<"All">>, and fetchUsers returns normally.
C4_FailedState ==
    /\ error = ErrorMessage
    /\ loading = FALSE
    /\ users = <<>>
    /\ cities = <<All>>
    /\ pc = "done"

C4_FetchFailure ==
    /\ [](error # Null => C4_FailedState)
    /\ [][(FetchRejected \/ FetchNotOk \/ JsonRejected) => C4_FailedState']_vars

C4_Witness ==
    C4_FailedState /\ query # NoQuery /\ sortBy = "company"

\* C5: the view goes Initializing -> Loading -> Ready or Failed; loading is
\* true exactly until the fetch completes; Ready is never left, and Failed
\* is left only by the reload, which puts query, category, sort key and
\* page back to their initial values.
C5_ViewStep ==
    /\ (View = "Initializing" => View' \in {"Initializing", "Loading"})
    /\ (View = "Loading" => View' \in {"Loading", "Ready", "Failed"})
    /\ (View = "Ready" => View' = "Ready")
    /\ (View = "Failed" =>
            \/ View' = "Failed"
            \/ /\ View' \in {"Initializing", "Loading"}
               /\ query' = NoQuery
               /\ cityFilter' = All
               /\ sortBy' = "name"
               /\ page' = 1)

C5_ViewStateMachine ==
    /\ [](loading <=> pc # "done")
    /\ [](error # Null => ~loading)
    /\ [][C5_ViewStep]_vars

C5_Witness ==
    View = "Loading" /\ fetches = 1 /\ users = <<>> /\ error = Null /\ pc = "parsing"

\* C6: one fetch is issued at startup and no other: the number of fetches
\* issued since the page was loaded is 0 before the mount effect and 1 ever
\* after, whatever inputs and completions follow; a failure issues none.
C6_FetchOnce ==
    /\ [](fetches = IF pc = "init" THEN 0 ELSE 1)
    /\ [][fetches' > fetches => pc = "init" /\ fetches = 0]_vars
    /\ [][(FetchRejected \/ FetchNotOk \/ JsonRejected) => fetches' = fetches /\ pc' = "done"]_vars

C6_Witness ==
    pc = "done" /\ fetches = 1 /\ error # Null /\ query # NoQuery

\* C7: the category options are "All" followed by the distinct non-empty
\* cities of the dataset in ascending order, with no absent city and no
\* duplicate.
C7_CategoryOptions ==
    LET rest == Tail(cities)
    IN  /\ cities[1] = All
        /\ Range(rest) = {users[i].city : i \in 1..Len(users)} \ {Undefined, <<>>}
        /\ \A i \in 1..Len(rest) : rest[i] # Undefined /\ rest[i] # <<>>
        /\ \A i, j \in 1..Len(rest) : i < j => CodeUnitCompare(rest[i], rest[j]) < 0
        /\ \A i, j \in 1..Len(cities) : i # j => cities[i] # cities[j]

\* C8: with C filtered records, totalPages is ceil(C / 4), and the visible
\* rows of pages 1..totalPages, one after the other, are the filtered and
\* sorted sequence; for C = 0 there are no pages and no visible rows.
C8_Pagination ==
    LET C == Len(filtered)
    IN  /\ totalPages * 4 >= C
        /\ (totalPages - 1) * 4 < C
        /\ PagesUpTo(filtered, totalPages) = filtered
        /\ \A p \in 1..totalPages :
                /\ Len(paginatedOf(filtered, p)) >= 1
                /\ Len(paginatedOf(filtered, p)) <= 4
        /\ (C = 0 => totalPages = 0 /\ paginated = <<>>)

C8_Witness ==
    totalPages = 3 /\ Len(filtered) = 9 /\ page = 3 /\ Len(paginated) = 1

\* C9: with a category c other than "All", every filtered record has city
\* c exactly, and every dataset record with city c that matches the query
\* is in the filtered result; with "All", every record that matches the
\* query is in the filtered result.
C9_CategoryFilter ==
    LET hit(u) == query = NoQuery \/ matchesQuery(u, query)
    IN  /\ Range(filtered) \subseteq Range(users)
        /\ cityFilter # All =>
              /\ \A i \in 1..Len(filtered) : filtered[i].city = cityFilter
              /\ \A i \in 1..Len(users) :
                    (users[i].city = cityFilter /\ hit(users[i])) =>
                        users[i] \in Range(filtered)
        /\ cityFilter = All =>
              \A i \in 1..Len(users) : hit(users[i]) => users[i] \in Range(filtered)

C9_Witness ==
    /\ cityFilter = <<75>>
    /\ query = <<97>>
    /\ Len(filtered) >= 1
    /\ \E i \in 1..Len(users) : users[i].city = <<107>> /\ matchesQuery(users[i], query)
    /\ \E i \in 1..Len(users) : users[i].city = <<75>> /\ ~matchesQuery(users[i], query)

\* C10: while the view is Loading or Failed the dataset is empty, the
\* visible rows are empty and the page number is 1, whatever query,
\* category or sort key has been entered.
C10_NothingBeforeReady ==
    (loading \/ error # Null) =>
        /\ users = <<>>
        /\ paginated = <<>>
        /\ page = 1

C10_Witness ==
    error # Null /\ ~loading /\ query # NoQuery /\ sortBy = "company" /\ page = 1
====
